---- MODULE Spec2Model ----
(***************************************************************************)
(* Model of the blob-storage utilities of news-ingestion-api               *)
(* (src/utils/blob.py): BlobNameValidator, ChunkedUploader and             *)
(* BlobStorageServiceClient, running against a model of the storage        *)
(* account (one container, named blobs, uncommitted and committed blocks), *)
(* and of the article pipeline and the Bing agent search of                *)
(* src/utils/search.py.                                                    *)
(***************************************************************************)
EXTENDS Integers, Sequences, FiniteSets, TLC

\* ------------------------------------------------------------------------
\* Bounds of the model
\* ------------------------------------------------------------------------
\* longest payload handed to an upload
MaxLen == 3
\* largest UploadConfig.chunk_size tried
MaxChunk == 2

BlobNames == {"a"}
Procs == {1}
Absent == <<-1>>              \* marks a name under which no blob is committed

\* Payloads: the prefixes of 1, 2, .., MaxLen, and MaxLen, .., 2, 1. The bytes
\* of one payload differ pairwise, so that a lost, repeated or misplaced byte
\* changes the content.
Payloads ==
    {[k \in 1..n |-> k] : n \in 0..MaxLen} \cup
    {[k \in 1..MaxLen |-> MaxLen + 1 - k]}
ChunkSizes == 1..MaxChunk

\* ------------------------------------------------------------------------
\* Python values and exceptions
\* ------------------------------------------------------------------------
NoneVal == "None"

\* bool(v) of an optional string argument: None and "" are falsy
Truthy(v) == v \notin {NoneVal, ""}

\* Direct base class of every exception class the module raises or catches.
ExcParent(e) ==
    CASE e = "BlobNotFoundError"      -> "BlobStorageError"
      [] e = "BlobAlreadyExistsError" -> "BlobStorageError"
      [] e = "BlobStorageError"       -> "Exception"
      [] e = "ResourceNotFoundError"  -> "HttpResponseError"
      [] e = "ResourceExistsError"    -> "HttpResponseError"
      [] e = "HttpResponseError"      -> "AzureError"
      [] e = "AzureError"             -> "Exception"
      [] e = "ValueError"             -> "Exception"
      [] e = "ArticleException"       -> "Exception"
      [] e = "EnvironmentError"       -> "Exception"
      [] e = "FileNotFoundError"      -> "OSError"
      [] e = "OSError"                -> "Exception"
      [] e = "UnicodeEncodeError"     -> "ValueError"
      [] e = "AgentRunFailed"         -> "Exception"
      [] OTHER                        -> "object"

\* isinstance(e, cls), as an except clause decides it
RECURSIVE IsInstance(_, _)
IsInstance(e, cls) ==
    IF e = cls THEN TRUE
    ELSE IF e \in {"Exception", "object"} THEN FALSE
    ELSE IsInstance(ExcParent(e), cls)

\* Outcome of a call: a returned value or a raised exception with its cause
Return(v) == [kind |-> "return", val |-> v, cause |-> ""]
Raise(e, c) == [kind |-> "raise", val |-> e, cause |-> c]
NoOutcome == [kind |-> "none", val |-> "", cause |-> ""]

\* Transport-level outcome of one backend request, chosen by the environment
Faults == {"none", "HttpResponseError"}

\* ------------------------------------------------------------------------
\* The storage account: one container with committed blobs and, per blob
\* name, the blocks staged but not yet committed.
\* ------------------------------------------------------------------------
NoBlocks == [id \in {} |-> <<>>]

\* ContainerClient.create_container
BackendCreateContainer(exists, fault) ==
    IF fault # "none" THEN [out |-> Raise(fault, ""), exists |-> exists]
    ELSE IF exists THEN [out |-> Raise("ResourceExistsError", ""), exists |-> TRUE]
    ELSE [out |-> Return(NoneVal), exists |-> TRUE]

\* BlobClient.get_blob_properties
BackendGetProperties(exists, bl, name, fault) ==
    IF fault # "none" THEN Raise(fault, "")
    ELSE IF ~exists \/ bl[name] = Absent THEN Raise("ResourceNotFoundError", "")
    ELSE Return("properties")

\* BlobClient.upload_blob(data, overwrite=...)
BackendUploadBlob(exists, bl, unc, com, name, data, overwrite, fault) ==
    LET same == [blobs |-> bl, unc |-> unc, com |-> com]
    IN  IF fault # "none" THEN [out |-> Raise(fault, "")] @@ same
        ELSE IF ~exists THEN [out |-> Raise("ResourceNotFoundError", "")] @@ same
        ELSE IF ~overwrite /\ bl[name] # Absent
             THEN [out |-> Raise("ResourceExistsError", "")] @@ same
        ELSE [out |-> Return(NoneVal),
              blobs |-> [bl EXCEPT ![name] = data],
              unc |-> [unc EXCEPT ![name] = NoBlocks],
              com |-> [com EXCEPT ![name] = NoBlocks]]

\* BlobClient.stage_block(block_id, chunk): the block is stored uncommitted,
\* replacing an uncommitted block of the same id; the visible blob is untouched
StoreBlock(blocks, id, chunk) ==
    [b \in DOMAIN blocks \cup {id} |-> IF b = id THEN chunk ELSE blocks[b]]

BackendStageBlock(exists, unc, name, id, chunk, fault) ==
    IF fault # "none" THEN [out |-> Raise(fault, ""), unc |-> unc]
    ELSE IF ~exists THEN [out |-> Raise("ResourceNotFoundError", ""), unc |-> unc]
    ELSE [out |-> Return(NoneVal),
          unc |-> [unc EXCEPT ![name] = StoreBlock(unc[name], id, chunk)]]

\* Concatenation of the blocks named by ids, in the order of ids
RECURSIVE ConcatBlocks(_, _)
ConcatBlocks(blocks, ids) ==
    IF ids = <<>> THEN <<>>
    ELSE blocks[Head(ids)] \o ConcatBlocks(blocks, Tail(ids))

\* The block an identifier passed as a plain string names: the uncommitted
\* block of that id if there is one, else the committed one
LatestBlocks(staged, done) ==
    [id \in DOMAIN staged \cup DOMAIN done |->
        IF id \in DOMAIN staged THEN staged[id] ELSE done[id]]

\* BlobClient.commit_block_list(block_list): the named blocks, in list order,
\* become the content of the blob in one step; other uncommitted blocks go
BackendCommitBlockList(exists, bl, unc, com, name, ids, fault) ==
    LET same == [blobs |-> bl, unc |-> unc, com |-> com]
        latest == LatestBlocks(unc[name], com[name])
    IN  IF fault # "none" THEN [out |-> Raise(fault, "")] @@ same
        ELSE IF ~exists THEN [out |-> Raise("ResourceNotFoundError", "")] @@ same
        ELSE IF \E k \in 1..Len(ids) : ids[k] \notin DOMAIN latest
             THEN [out |-> Raise("HttpResponseError", "")] @@ same
        ELSE [out |-> Return(NoneVal),
              blobs |-> [bl EXCEPT ![name] = ConcatBlocks(latest, ids)],
              unc |-> [unc EXCEPT ![name] = NoBlocks],
              com |-> [com EXCEPT ![name] =
                         [id \in {ids[k] : k \in 1..Len(ids)} |-> latest[id]]]]

\* BlobClient.delete_blob
BackendDeleteBlob(exists, bl, unc, com, name, fault) ==
    LET same == [blobs |-> bl, unc |-> unc, com |-> com]
    IN  IF fault # "none" THEN [out |-> Raise(fault, "")] @@ same
        ELSE IF ~exists \/ bl[name] = Absent
             THEN [out |-> Raise("ResourceNotFoundError", "")] @@ same
        ELSE [out |-> Return(NoneVal),
              blobs |-> [bl EXCEPT ![name] = Absent],
              unc |-> [unc EXCEPT ![name] = NoBlocks],
              com |-> [com EXCEPT ![name] = NoBlocks]]

\* BlobClient.download_blob().readall()
BackendDownloadBlob(exists, bl, name, fault) ==
    IF fault # "none" THEN [out |-> Raise(fault, ""), data |-> <<>>]
    ELSE IF ~exists \/ bl[name] = Absent
         THEN [out |-> Raise("ResourceNotFoundError", ""), data |-> <<>>]
    ELSE [out |-> Return("bytes"), data |-> bl[name]]

\* ------------------------------------------------------------------------
\* BlobNameValidator. A name is a sequence of one-character strings.
\* ------------------------------------------------------------------------
MAX_LENGTH == 1024

\* ILLEGAL_CHARS_PATTERN  [\\/?#%]
IllegalChars == {"\\", "/", "?", "#", "%"}
\* the ASCII characters \s matches
WhitespaceChars == {" ", "\t", "\n", "\r", "\f"}
\* the argument of str.strip(' .')
StripChars == {" ", "."}

\* ILLEGAL_CHARS_PATTERN.sub('_', name)
SubIllegal(s) ==
    [i \in 1..Len(s) |-> IF s[i] \in IllegalChars THEN "_" ELSE s[i]]

\* WHITESPACE_PATTERN.sub('_', s): every maximal run of whitespace -> one "_"
NotDropped(c) == c # ""
SubWhitespace(s) ==
    LET marked == [i \in 1..Len(s) |->
                     IF s[i] \in WhitespaceChars
                     THEN IF i > 1 /\ s[i - 1] \in WhitespaceChars THEN "" ELSE "_"
                     ELSE s[i]]
    IN  SelectSeq(marked, NotDropped)

\* s.strip(' .')
RECURSIVE FirstKept(_, _)
FirstKept(s, i) ==
    IF i > Len(s) \/ s[i] \notin StripChars THEN i ELSE FirstKept(s, i + 1)
RECURSIVE LastKept(_, _)
LastKept(s, j) ==
    IF j < 1 \/ s[j] \notin StripChars THEN j ELSE LastKept(s, j - 1)
Strip(s) == SubSeq(s, FirstKept(s, 1), LastKept(s, Len(s)))

\* s[:n]
Truncate(s, n) == SubSeq(s, 1, IF Len(s) < n THEN Len(s) ELSE n)

\* Variant of MaxBaseLength: no room reserved for the extension
MaxBaseLengthNoReserve(add_extension) == MAX_LENGTH

\* sanitize: the length the base name is cut to
MaxBaseLength(add_extension) ==
    IF add_extension THEN MAX_LENGTH - 4 ELSE MAX_LENGTH

\* sanitize: the cut and the extension
LimitLength(safe, add_extension) ==
    IF add_extension
    THEN Truncate(safe, MaxBaseLength(add_extension)) \o <<".", "t", "x", "t">>
    ELSE Truncate(safe, MaxBaseLength(add_extension))

\* BlobNameValidator.sanitize
sanitize(name, add_extension) ==
    IF Len(name) = 0 THEN [out |-> Raise("ValueError", ""), name |-> <<>>]
    ELSE LET stripped == Strip(SubWhitespace(SubIllegal(name)))
             safe == IF Len(stripped) = 0
                     THEN <<"u", "n", "n", "a", "m", "e", "d">>
                     ELSE stripped
         IN  [out |-> Return("str"), name |-> LimitLength(safe, add_extension)]

\* BlobNameValidator.validate
validate(name) ==
    IF Len(name) = 0 \/ Len(name) > MAX_LENGTH THEN FALSE
    ELSE IF (\E i \in 1..Len(name) : name[i] \in IllegalChars) \/ name # Strip(name)
    THEN FALSE
    ELSE TRUE

\* ------------------------------------------------------------------------
\* ChunkedUploader
\* ------------------------------------------------------------------------
\* f"{block_number:08d}" as character codes
RECURSIVE Decimal(_)
Decimal(n) == IF n < 10 THEN <<48 + n>> ELSE Append(Decimal(n \div 10), 48 + (n % 10))

ZeroPad8(n) ==
    LET d == Decimal(n)
    IN  IF Len(d) >= 8 THEN d ELSE [k \in 1..(8 - Len(d)) |-> 48] \o d

\* The characters of the base64 alphabet, by 6-bit value
B64Char(v) ==
    IF v < 26 THEN 65 + v
    ELSE IF v < 52 THEN 97 + (v - 26)
    ELSE IF v < 62 THEN 48 + (v - 52)
    ELSE IF v = 62 THEN 43 ELSE 47

\* base64.b64encode(bytes).decode(): 3 bytes -> 4 characters, "=" padded
B64Encode(bs) ==
    LET n == Len(bs)
        groups == (n + 2) \div 3
        byte(i) == IF i <= n THEN bs[i] ELSE 0
        word(g) == byte(3*g - 2) * 65536 + byte(3*g - 1) * 256 + byte(3*g)
        have(g) == IF n - 3*(g - 1) >= 3 THEN 3 ELSE n - 3*(g - 1)
    IN  [j \in 1..(4 * groups) |->
            LET g == ((j - 1) \div 4) + 1
                k == ((j - 1) % 4) + 1
            IN  IF k > have(g) + 1 THEN 61
                ELSE B64Char((word(g) \div (64^(4 - k))) % 64)]

\* Variant of _generate_block_id: the sequence number is left out
_generate_block_id_fixed(block_number) ==
    B64Encode(<<98, 108, 111, 99, 107, 45>> \o ZeroPad8(0))

\* ChunkedUploader._generate_block_id
_generate_block_id(block_number) ==
    B64Encode(<<98, 108, 111, 99, 107, 45>> \o ZeroPad8(block_number))

\* data[i:j] for 0 <= i <= j (Python slice, clipped at len(data))
Slice(data, i, j) ==
    SubSeq(data, i + 1, IF j < Len(data) THEN j ELSE Len(data))

\* Variant of UploadPath: strict comparison
UploadPathStrict(data, chunk_size) ==
    IF Len(data) < chunk_size THEN "simple" ELSE "stage"

\* ChunkedUploader.upload: choice of the strategy by size
UploadPath(data, chunk_size) ==
    IF Len(data) <= chunk_size THEN "simple" ELSE "stage"

\* Variant of UploadWrap: the backend error is not attached as the cause
UploadWrapNoCause(o) ==
    IF o.kind = "raise" /\ IsInstance(o.val, "AzureError")
    THEN Raise("BlobStorageError", "")
    ELSE o

\* ChunkedUploader.upload: except AzureError -> BlobStorageError
UploadWrap(o) ==
    IF o.kind = "raise" /\ IsInstance(o.val, "AzureError")
    THEN Raise("BlobStorageError", o.val)
    ELSE o

\* Variant of _get_blob_client: errors pass through unwrapped
_get_blob_client_bare(clientFault, body) ==
    IF clientFault # "none" THEN Raise(clientFault, "") ELSE body

\* ------------------------------------------------------------------------
\* BlobStorageServiceClient helpers
\* ------------------------------------------------------------------------
\* _get_blob_client: the context manager catches every AzureError raised
\* while obtaining the client or thrown into it from the body of the with
\* statement, and raises BlobStorageError from it
_get_blob_client(clientFault, body) ==
    LET o == IF clientFault # "none" THEN Raise(clientFault, "") ELSE body
    IN  IF o.kind = "raise" /\ IsInstance(o.val, "AzureError")
        THEN Raise("BlobStorageError", o.val)
        ELSE o

\* _blob_exists: True, False on ResourceNotFoundError, any other error escapes
_blob_exists(props) ==
    IF props.kind = "return" THEN Return("True")
    ELSE IF IsInstance(props.val, "ResourceNotFoundError") THEN Return("False")
    ELSE props

\* Variant of _ensure_container_exists: no except ResourceExistsError clause
_ensure_container_exists_strict(exists, clientFault, fault) ==
    LET r == IF clientFault # "none"
             THEN [out |-> Raise(clientFault, ""), exists |-> exists]
             ELSE BackendCreateContainer(exists, fault)
        out == IF r.out.kind = "return" THEN Return(NoneVal)
               ELSE IF IsInstance(r.out.val, "AzureError")
                    THEN Raise("BlobStorageError", r.out.val)
               ELSE r.out
    IN  [out |-> out, exists |-> r.exists,
         calls |-> IF clientFault # "none" THEN <<>> ELSE <<"create_container">>]

\* _ensure_container_exists: ResourceExistsError is success, any other
\* AzureError is raised as BlobStorageError
_ensure_container_exists(exists, clientFault, fault) ==
    LET r == IF clientFault # "none"
             THEN [out |-> Raise(clientFault, ""), exists |-> exists]
             ELSE BackendCreateContainer(exists, fault)
        out == IF r.out.kind = "return" THEN Return(NoneVal)
               ELSE IF IsInstance(r.out.val, "ResourceExistsError") THEN Return(NoneVal)
               ELSE IF IsInstance(r.out.val, "AzureError")
                    THEN Raise("BlobStorageError", r.out.val)
               ELSE r.out
    IN  [out |-> out, exists |-> r.exists,
         calls |-> IF clientFault # "none" THEN <<>> ELSE <<"create_container">>]

\* Variant of InitBranch: the container name is not required
InitBranchNoName(container_name, account_url, connection_string) ==
    IF Truthy(account_url) THEN "account_url"
    ELSE IF Truthy(connection_string) THEN "connection_string"
    ELSE "error"

\* BlobStorageServiceClient.__init__: which credential source is used
InitBranch(container_name, account_url, connection_string) ==
    IF Truthy(account_url) /\ Truthy(container_name) THEN "account_url"
    ELSE IF Truthy(connection_string) /\ Truthy(container_name) THEN "connection_string"
    ELSE "error"

\* BlobStorageServiceClient.__init__
__init__(exists, container_name, account_url, credential, connection_string, create_container, clientFault, fault) ==
    LET branch == InitBranch(container_name, account_url, connection_string)
        ens == _ensure_container_exists(exists, clientFault, fault)
        made == [state |-> "ready",
                 container_name |-> container_name,
                 source |-> branch,
                 credential |-> IF branch # "account_url" THEN NoneVal
                                ELSE IF Truthy(credential) THEN credential
                                ELSE "DefaultAzureCredential"]
        none == [state |-> "none", container_name |-> NoneVal,
                 source |-> "error", credential |-> NoneVal]
    IN  IF branch = "error"
        THEN [out |-> Raise("ValueError", ""), exists |-> exists, calls |-> <<>>,
              client |-> none]
        ELSE IF ~create_container
        THEN [out |-> Return(NoneVal), exists |-> exists, calls |-> <<>>,
              client |-> made]
        ELSE [out |-> ens.out, exists |-> ens.exists, calls |-> ens.calls,
              client |-> IF ens.out.kind = "return" THEN made ELSE none]

\* Variant of _upload_bytes_check: the existence check is left out
_upload_bytes_nocheck(overwrite, props) == Return("continue")

\* _upload_bytes: the overwrite check made before any data is transferred;
\* "continue" stands for falling through to ChunkedUploader.upload
_upload_bytes_check(overwrite, props) ==
    IF ~overwrite
    THEN LET e == _blob_exists(props)
         IN  IF e.kind = "raise" THEN e
             ELSE IF e.val = "True" THEN Raise("BlobAlreadyExistsError", "")
             ELSE Return("continue")
    ELSE Return("continue")

\* Variant of StageNext: a failed stage_block call is skipped over
StageNextSwallow(out, i, chunk_size, total_size) ==
    IF i + chunk_size < total_size THEN "stage" ELSE "commit"

\* _staged_upload: where the loop goes after one stage_block call
StageNext(out, i, chunk_size, total_size) ==
    IF out.kind = "raise" THEN "done"
    ELSE IF i + chunk_size < total_size THEN "stage"
    ELSE "commit"

\* delete_blob
delete_blob(exists, bl, unc, com, name, must_exist, clientFault, fault) ==
    LET r == IF clientFault # "none"
             THEN [out |-> NoOutcome, blobs |-> bl, unc |-> unc, com |-> com]
             ELSE BackendDeleteBlob(exists, bl, unc, com, name, fault)
        body == IF r.out.kind = "return" THEN Return("True") ELSE r.out
        w == _get_blob_client(clientFault, body)
        out == IF w.kind = "raise" /\ IsInstance(w.val, "ResourceNotFoundError")
               THEN IF must_exist THEN Raise("BlobNotFoundError", "")
                    ELSE Return("False")
               ELSE IF w.kind = "raise" /\ IsInstance(w.val, "AzureError")
                    THEN Raise("BlobStorageError", w.val)
               ELSE w
    IN  [out |-> out, blobs |-> r.blobs, unc |-> r.unc, com |-> r.com,
         data |-> <<>>,
         calls |-> IF clientFault # "none" THEN <<>> ELSE <<"delete_blob">>]

\* blob_exists
blob_exists(exists, bl, name, clientFault, fault) ==
    LET body == _blob_exists(BackendGetProperties(exists, bl, name, fault))
        w == _get_blob_client(clientFault, body)
        out == IF w.kind = "raise" /\ IsInstance(w.val, "BlobStorageError")
               THEN Return("False")
               ELSE w
    IN  [out |-> out, data |-> <<>>,
         calls |-> IF clientFault # "none" THEN <<>> ELSE <<"get_blob_properties">>]

\* download_bytes
download_bytes(exists, bl, name, clientFault, fault) ==
    LET r == BackendDownloadBlob(exists, bl, name, fault)
        w == _get_blob_client(clientFault, r.out)
        out == IF w.kind = "raise" /\ IsInstance(w.val, "ResourceNotFoundError")
               THEN Raise("BlobNotFoundError", "")
               ELSE IF w.kind = "raise" /\ IsInstance(w.val, "AzureError")
                    THEN Raise("BlobStorageError", w.val)
               ELSE w
    IN  [out |-> out,
         data |-> IF out.kind = "return" THEN r.data ELSE <<>>,
         calls |-> IF clientFault # "none" THEN <<>> ELSE <<"download_blob">>]

\* UploadConfig(): the defaults of the dataclass
DEFAULT_CHUNK_SIZE == 4194304

DefaultConfig ==
    [chunk_size |-> DEFAULT_CHUNK_SIZE, overwrite |-> TRUE,
     content_type |-> NoneVal, metadata |-> NoneVal,
     progress_callback |-> NoneVal]

\* _sanitize_text: control characters other than tab, LF and CR are removed
IsControlChar(c) ==
    c \in (0..8) \cup (11..12) \cup (14..31) \cup (127..159)

_sanitize_text(text) == SelectSeq(text, LAMBDA c : ~IsControlChar(c))

\* str.encode('utf-8') of code points below 2048
RECURSIVE Utf8(_)
Utf8(text) ==
    IF text = <<>> THEN <<>>
    ELSE LET c == Head(text)
         IN  (IF c < 128 THEN <<c>> ELSE <<192 + (c \div 64), 128 + (c % 64)>>)
             \o Utf8(Tail(text))

_safe_utf8_bytes(text) == Utf8(_sanitize_text(text))

\* ContentTypeDetector.detect: by the extension of the file name
detect(file_path) ==
    IF file_path = "f.txt" THEN "text/plain" ELSE "application/octet-stream"

\* upload_text: the config handed on, and the caller's object afterwards
upload_text_config(given, cfg) ==
    IF ~given
    THEN [used |-> [DefaultConfig EXCEPT !.content_type = "text/plain; charset=utf-8"],
          obj |-> cfg]
    ELSE IF cfg.content_type = NoneVal
    THEN LET c == [cfg EXCEPT !.content_type = "text/plain; charset=utf-8"]
         IN  [used |-> c, obj |-> c]
    ELSE [used |-> cfg, obj |-> cfg]

\* upload_file: the config handed on, and the caller's object afterwards
upload_file_config(given, cfg, file_path) ==
    LET own == IF given THEN cfg ELSE DefaultConfig
        c == IF own.content_type = NoneVal
             THEN [own EXCEPT !.content_type = detect(file_path)]
             ELSE own
    IN  [used |-> c, obj |-> IF given THEN c ELSE cfg]

\* ------------------------------------------------------------------------
\* State
\* ------------------------------------------------------------------------
VARIABLES
    client,           \* the BlobStorageServiceClient object held by the caller
    ctor,             \* the last constructor call: arguments, outcome, calls
    containerExists,  \* storage account: the container exists
    blobs,            \* storage account: committed content per blob name
    uncommitted,      \* storage account: staged blocks per blob name
    up,               \* per caller: the upload call in progress or last made
    last,             \* the last single-request operation and its outcome
    san,              \* the last BlobNameValidator call: input and result
    config,           \* the UploadConfig object the caller passed to upload_text/upload_file
    batch,            \* the _process_articles call and the article blobs it stored
    srch,             \* the BingSearchService.search call and the agent service
    gen,              \* the last pair of block identifiers generated
    committed         \* storage account: the committed blocks per blob name

vars ==
    <<client, ctor, containerExists, blobs, uncommitted, up, last, san, config,
      batch, srch, gen, committed>>

StartedClient ==
    [state |-> "ready", container_name |-> "news", source |-> "account_url",
     credential |-> "DefaultAzureCredential"]

NoClient ==
    [state |-> "none", container_name |-> NoneVal, source |-> "error",
     credential |-> NoneVal]

NoCtor ==
    [container_name |-> NoneVal, account_url |-> NoneVal,
     credential |-> NoneVal, connection_string |-> NoneVal,
     create_container |-> FALSE, existed |-> FALSE,
     out |-> NoOutcome, calls |-> <<>>]

IdleUpload ==
    [pc |-> "idle", name |-> "a", data |-> <<>>, chunk_size |-> 1,
     overwrite |-> TRUE, before |-> Absent, i |-> 0, chunk_count |-> 0,
     block_list |-> <<>>, staged |-> <<>>, calls |-> <<>>, probe |-> "none",
     failed |-> "", error |-> "", callback |-> FALSE, progress |-> <<>>,
     result |-> NoOutcome]

NoSan ==
    [op |-> "none", input |-> <<>>, add_extension |-> FALSE,
     out |-> NoOutcome, name |-> <<>>, valid |-> "none"]

NoLast ==
    [op |-> "none", name |-> "a", must_exist |-> FALSE,
     clientFault |-> "none", fault |-> "none", existed |-> FALSE,
     containerExisted |-> FALSE, out |-> NoOutcome, data |-> <<>>,
     calls |-> <<>>]

\* No upload_text/upload_file call has been made. given: the caller passed
\* an UploadConfig; before: its fields when the call was made; obj: its
\* fields now; used: the fields of the config handed to _upload_bytes.
NoConfig ==
    [via |-> "none", given |-> FALSE, before |-> DefaultConfig,
     obj |-> DefaultConfig, used |-> DefaultConfig]

\* No _process_articles call has been made
NoBatch ==
    [pc |-> "idle", urls |-> <<>>, k |-> 1, articles |-> <<>>, j |-> 1,
     attempted |-> <<>>, exfail |-> 0, uploads |-> <<>>, succ |-> <<>>,
     upfail |-> 0, stored |-> <<>>, uuid |-> 0, log |-> <<>>,
     result |-> NoOutcome]

\* No BingSearchService.search call has been made. agents, threads and
\* client_state are the agent service and the project client object; the
\* other fields are the locals and the position of the call.
NoSearch ==
    [pc |-> "idle", agent_name |-> NoneVal, agents |-> {}, threads |-> {},
     client_state |-> "none", project_client |-> NoneVal, agent |-> NoneVal,
     thread |-> NoneVal, created |-> FALSE, pending |-> NoOutcome,
     calls |-> <<>>, relfail |-> {}, log |-> <<>>, cleanup_out |-> NoOutcome,
     result |-> NoOutcome]

\* No pair of block identifiers has been generated
NoGen == [op |-> "none", i |-> 0, j |-> 0, id_i |-> <<>>, id_j |-> <<>>]

\* The state after construction: a client bound to the container, which
\* exists unless the client was built with create_container=False on an
\* account that lacks it; no blob has been written yet.
Init ==
    /\ client = StartedClient
    /\ ctor = NoCtor
    /\ containerExists \in BOOLEAN
    /\ blobs = [n \in BlobNames |-> Absent]
    /\ uncommitted = [n \in BlobNames |-> NoBlocks]
    /\ committed = [n \in BlobNames |-> NoBlocks]
    /\ up = [p \in Procs |-> IdleUpload]
    /\ last = NoLast
    /\ san = NoSan
    /\ config = NoConfig
    /\ batch = NoBatch
    /\ srch = NoSearch
    /\ gen = NoGen

\* No call is in progress and the result of the last one has been taken
Quiescent == last = NoLast /\ \A p \in Procs : up[p].pc = "idle"

\* ------------------------------------------------------------------------
\* Upload: _upload_bytes -> ChunkedUploader.upload, one backend request per
\* step
\* ------------------------------------------------------------------------
\* The exception a backend request raised, "" when it returned
ErrorOf(o) == IF o.kind = "raise" THEN o.val ELSE ""

\* _upload_bytes is entered with the call's arguments in u: the blob client
\* is obtained, then the overwrite check or the upload follows
Enter(u, clientFault) ==
    IF clientFault # "none"
    THEN [u EXCEPT !.pc = "done",
                   !.result = _get_blob_client(clientFault, NoOutcome),
                   !.failed = "get_blob_client"]
    ELSE IF ~u.overwrite THEN [u EXCEPT !.pc = "exists_check"]
    ELSE [u EXCEPT !.pc = UploadPath(u.data, u.chunk_size)]

Finish(u, body, where) ==
    [u EXCEPT !.pc = "done",
              !.result = _get_blob_client("none", body),
              !.failed = IF u.failed # "" THEN u.failed
                         ELSE IF body.kind = "raise" THEN where
                         ELSE ""]

\* _upload_bytes is entered: the blob client is obtained
UploadBytes(p, name, data, chunk_size, overwrite, clientFault) ==
    /\ client.state = "ready"
    /\ Quiescent
    /\ LET u == [IdleUpload EXCEPT !.name = name, !.data = data,
                                   !.chunk_size = chunk_size,
                                   !.overwrite = overwrite,
                                   !.before = blobs[name]]
       IN  up' = [up EXCEPT ![p] = Enter(u, clientFault)]
    /\ UNCHANGED <<committed, config, batch, srch, gen, san, client, ctor,
                   containerExists, blobs, uncommitted, last>>

\* _upload_bytes: if not config.overwrite and self._blob_exists(blob_client)
ExistsCheck(p, fault) ==
    /\ up[p].pc = "exists_check"
    /\ LET u == up[p]
           props == BackendGetProperties(containerExists, blobs, u.name, fault)
           c == _upload_bytes_check(u.overwrite, props)
           u1 == [u EXCEPT !.calls = Append(@, "get_blob_properties"),
                           !.probe = IF props.kind = "return" THEN "found"
                                     ELSE IF fault = "none" THEN "absent"
                                     ELSE "error"]
       IN  up' = [up EXCEPT ![p] =
                IF c.kind = "raise" THEN Finish(u1, c, "exists_check")
                ELSE [u1 EXCEPT !.pc = UploadPath(u.data, u.chunk_size)]]
    /\ UNCHANGED <<committed, config, batch, srch, gen, san, client, ctor,
                   containerExists, blobs, uncommitted, last>>

\* ChunkedUploader._simple_upload
SimpleUpload(p, fault) ==
    /\ up[p].pc = "simple"
    /\ LET u == up[p]
           r == BackendUploadBlob(containerExists, blobs, uncommitted, committed, u.name,
                                  u.data, u.overwrite, fault)
           body == UploadWrap(IF r.out.kind = "return" THEN Return("True") ELSE r.out)
       IN  /\ up' = [up EXCEPT ![p] =
                  Finish([u EXCEPT !.calls = Append(@, "upload_blob"),
                                   !.error = ErrorOf(r.out)], body,
                         "upload_blob")]
           /\ blobs' = r.blobs
           /\ uncommitted' = r.unc
           /\ committed' = r.com
    /\ UNCHANGED <<config, batch, srch, gen, san, client, ctor,
                   containerExists, last>>

\* ChunkedUploader._staged_upload: one iteration of the staging loop
StageBlock(p, fault) ==
    /\ up[p].pc = "stage"
    /\ LET u == up[p]
           chunk == Slice(u.data, u.i, u.i + u.chunk_size)
           block_id == _generate_block_id(u.chunk_count)
           r == BackendStageBlock(containerExists, uncommitted, u.name,
                                  block_id, chunk, fault)
           next == StageNext(r.out, u.i, u.chunk_size, Len(u.data))
           total_size == Len(u.data)
           current_pos == IF u.i + u.chunk_size < total_size
                          THEN u.i + u.chunk_size ELSE total_size
           u1 == [u EXCEPT !.calls = Append(@, "stage_block"),
                           !.staged = Append(@, [id |-> block_id, chunk |-> chunk]),
                           !.error = ErrorOf(r.out)]
           u2 == [u1 EXCEPT !.block_list = Append(@, block_id),
                            !.chunk_count = @ + 1,
                            !.i = @ + u.chunk_size,
                            !.calls = IF u.callback
                                      THEN Append(@, "progress_callback") ELSE @,
                            !.progress = IF u.callback
                                         THEN Append(@, [pos |-> current_pos,
                                                         total |-> total_size,
                                                         chunk |-> u.chunk_count + 1])
                                         ELSE @,
                            !.pc = next]
       IN  /\ up' = [up EXCEPT ![p] =
                  IF next = "done" THEN Finish(u1, UploadWrap(r.out), "stage_block")
                  ELSE IF r.out.kind = "raise"
                       THEN [u2 EXCEPT !.failed = "stage_block"]
                  ELSE u2]
           /\ uncommitted' = r.unc
    /\ UNCHANGED <<committed, config, batch, srch, gen, san, client, ctor,
                   containerExists, blobs, last>>

\* ChunkedUploader._staged_upload: commit_block_list after the loop
CommitBlockList(p, fault) ==
    /\ up[p].pc = "commit"
    /\ LET u == up[p]
           r == BackendCommitBlockList(containerExists, blobs, uncommitted, committed,
                                       u.name, u.block_list, fault)
           body == UploadWrap(IF r.out.kind = "return" THEN Return("True") ELSE r.out)
       IN  /\ up' = [up EXCEPT ![p] =
                  Finish([u EXCEPT !.calls = Append(@, "commit_block_list"),
                                   !.error = ErrorOf(r.out)], body,
                         "commit_block_list")]
           /\ blobs' = r.blobs
           /\ uncommitted' = r.unc
           /\ committed' = r.com
    /\ UNCHANGED <<config, batch, srch, gen, san, client, ctor,
                   containerExists, last>>

\* ------------------------------------------------------------------------
\* Single-request operations
\* ------------------------------------------------------------------------
Record(op, name, must_exist, clientFault, fault, r) ==
    [op |-> op, name |-> name, must_exist |-> must_exist,
     clientFault |-> clientFault, fault |-> fault,
     existed |-> containerExists /\ blobs[name] # Absent,
     containerExisted |-> containerExists,
     out |-> r.out, data |-> r.data, calls |-> r.calls]

DeleteBlob(name, must_exist, clientFault, fault) ==
    /\ client.state = "ready"
    /\ Quiescent
    /\ LET r == delete_blob(containerExists, blobs, uncommitted, committed, name, must_exist,
                            clientFault, fault)
       IN  /\ blobs' = r.blobs
           /\ uncommitted' = r.unc
           /\ committed' = r.com
           /\ last' = Record("delete_blob", name, must_exist, clientFault, fault, r)
    /\ UNCHANGED <<config, batch, srch, gen, san, client, ctor,
                   containerExists, up>>

BlobExists(name, clientFault, fault) ==
    /\ client.state = "ready"
    /\ Quiescent
    /\ last' = Record("blob_exists", name, FALSE, clientFault, fault,
                      blob_exists(containerExists, blobs, name, clientFault, fault))
    /\ UNCHANGED <<committed, config, batch, srch, gen, san, client, ctor,
                   containerExists, blobs, uncommitted, up>>

DownloadBytes(name, clientFault, fault) ==
    /\ client.state = "ready"
    /\ Quiescent
    /\ last' = Record("download_bytes", name, FALSE, clientFault, fault,
                      download_bytes(containerExists, blobs, name, clientFault, fault))
    /\ UNCHANGED <<committed, config, batch, srch, gen, san, client, ctor,
                   containerExists, blobs, uncommitted, up>>

EnsureContainerExists(clientFault, fault) ==
    /\ client.state = "ready"
    /\ Quiescent
    /\ LET r == _ensure_container_exists(containerExists, clientFault, fault)
       IN  /\ containerExists' = r.exists
           /\ last' = Record("_ensure_container_exists", "a", FALSE, clientFault,
                             fault, [out |-> r.out, data |-> <<>>, calls |-> r.calls])
    /\ UNCHANGED <<committed, config, batch, srch, gen, san, client, ctor,
                   blobs, uncommitted, up>>

\* The call returns to its caller: the outcome is handed over and the call's
\* frame is gone
CallReturns ==
    /\ ~Quiescent
    /\ \A p \in Procs : up[p].pc \in {"idle", "done"}
    /\ up' = [p \in Procs |-> IdleUpload]
    /\ last' = NoLast
    /\ UNCHANGED <<committed, config, batch, srch, gen, san, client, ctor,
                   containerExists, blobs, uncommitted>>

Next ==
    \/ \E p \in Procs, name \in BlobNames, data \in Payloads,
          chunk_size \in ChunkSizes, overwrite \in BOOLEAN, cf \in Faults :
          UploadBytes(p, name, data, chunk_size, overwrite, cf)
    \/ \E p \in Procs, f \in Faults : ExistsCheck(p, f)
    \/ \E p \in Procs, f \in Faults : SimpleUpload(p, f)
    \/ \E p \in Procs, f \in Faults : StageBlock(p, f)
    \/ \E p \in Procs, f \in Faults : CommitBlockList(p, f)
    \/ \E name \in BlobNames, me \in BOOLEAN, cf \in Faults, f \in Faults :
          DeleteBlob(name, me, cf, f)
    \/ \E name \in BlobNames, cf \in Faults, f \in Faults : BlobExists(name, cf, f)
    \/ \E name \in BlobNames, cf \in Faults, f \in Faults : DownloadBytes(name, cf, f)
    \/ \E cf \in Faults, f \in Faults : EnsureContainerExists(cf, f)
    \/ CallReturns

Spec == Init /\ [][Next]_vars

\* ------------------------------------------------------------------------
\* Construction of the client
\* ------------------------------------------------------------------------
OptionalStrings == {NoneVal, "", "given"}

Construct(container_name, account_url, credential, connection_string, create_container, clientFault, fault) ==
    /\ LET r == __init__(containerExists, container_name, account_url, credential,
                         connection_string, create_container, clientFault, fault)
       IN  /\ client' = r.client
           /\ containerExists' = r.exists
           /\ ctor' = [container_name |-> container_name,
                       account_url |-> account_url,
                       credential |-> credential,
                       connection_string |-> connection_string,
                       create_container |-> create_container,
                       existed |-> containerExists,
                       out |-> r.out, calls |-> r.calls]
    /\ UNCHANGED <<committed, config, batch, srch, gen, blobs, uncommitted,
                   up, last, san>>

\* Before construction: no client, the container may or may not exist
InitCtor ==
    /\ client = NoClient
    /\ ctor = NoCtor
    /\ containerExists \in BOOLEAN
    /\ blobs = [n \in BlobNames |-> Absent]
    /\ uncommitted = [n \in BlobNames |-> NoBlocks]
    /\ committed = [n \in BlobNames |-> NoBlocks]
    /\ up = [p \in Procs |-> IdleUpload]
    /\ last = NoLast
    /\ san = NoSan
    /\ config = NoConfig
    /\ batch = NoBatch
    /\ srch = NoSearch
    /\ gen = NoGen

NextCtor ==
    \E container_name \in OptionalStrings, account_url \in OptionalStrings,
       credential \in {NoneVal, "given"}, connection_string \in OptionalStrings,
       create_container \in BOOLEAN, cf \in Faults, f \in Faults :
       Construct(container_name, account_url, credential, connection_string,
                 create_container, cf, f)

SpecCtor == InitCtor /\ [][NextCtor]_vars

\* ------------------------------------------------------------------------
\* Blob names: sanitize and validate applied to names of every length around
\* the limits
\* ------------------------------------------------------------------------
\* Names tried: up to MaxAffix arbitrary characters, a run of "a" whose
\* length is 0 or lies around the two cut points, up to MaxAffix arbitrary
\* characters again, and possibly one more "a".
MaxAffix == 1
\* how far the run alone exceeds MAX_LENGTH
MaxOver == 1

NameChars == {"a", ".", " ", "/"}

RECURSIVE SeqsUpTo(_, _)
SeqsUpTo(S, n) ==
    IF n = 0 THEN {<<>>}
    ELSE LET shorter == SeqsUpTo(S, n - 1)
         IN  shorter \cup
             {Append(s, x) : s \in {t \in shorter : Len(t) = n - 1}, x \in S}

FillLens == {0} \cup ((MAX_LENGTH - 5 - MaxAffix)..(MAX_LENGTH + MaxOver))
TailLens == {0, 1}
Fill(k) == [i \in 1..k |-> "a"]

Sanitize(pre, k, suf, j, add_extension) ==
    /\ san.op = "none"
    /\ LET input == pre \o Fill(k) \o suf \o Fill(j)
           r == sanitize(input, add_extension)
       IN  san' = [op |-> "sanitize", input |-> input,
                   add_extension |-> add_extension,
                   out |-> r.out, name |-> r.name, valid |-> "none"]
    /\ UNCHANGED <<committed, config, batch, srch, gen, client, ctor,
                   containerExists, blobs, uncommitted, up, last>>

\* validate applied to the name sanitize returned
Validate ==
    /\ san.op = "sanitize"
    /\ san.out.kind = "return"
    /\ san' = [san EXCEPT !.op = "validate",
                          !.valid = IF validate(san.name) THEN "True" ELSE "False"]
    /\ UNCHANGED <<committed, config, batch, srch, gen, client, ctor,
                   containerExists, blobs, uncommitted, up, last>>

NextName ==
    \/ \E pre \in SeqsUpTo(NameChars, MaxAffix), k \in FillLens,
          suf \in SeqsUpTo(NameChars, MaxAffix), j \in TailLens,
          add_extension \in BOOLEAN :
          Sanitize(pre, k, suf, j, add_extension)
    \/ Validate

\* sanitize and validate are class methods: no client state is involved
InitName ==
    /\ client = NoClient
    /\ ctor = NoCtor
    /\ containerExists = FALSE
    /\ blobs = [n \in BlobNames |-> Absent]
    /\ uncommitted = [n \in BlobNames |-> NoBlocks]
    /\ committed = [n \in BlobNames |-> NoBlocks]
    /\ up = [p \in Procs |-> IdleUpload]
    /\ last = NoLast
    /\ san = NoSan
    /\ config = NoConfig
    /\ batch = NoBatch
    /\ srch = NoSearch
    /\ gen = NoGen

SpecName == InitName /\ [][NextName]_vars

\* ------------------------------------------------------------------------
\* Block identifiers: _generate_block_id applied to two sequence numbers of
\* one upload
\* ------------------------------------------------------------------------
\* largest leading digit of a sequence number tried
MaxDigit == 9
\* largest power of ten of a sequence number tried
MaxPow == 2

\* Sequence numbers d * 10^k: each decimal digit position takes each value
SeqNumbers == {d * (10 ^ k) : d \in 0..MaxDigit, k \in 0..MaxPow}

\* Two chunks of one upload get their identifiers, block i before block j
GenerateBlockIds(i, j) ==
    /\ gen.op = "none"
    /\ i < j
    /\ gen' = [op |-> "_generate_block_id", i |-> i, j |-> j,
               id_i |-> _generate_block_id(i), id_j |-> _generate_block_id(j)]
    /\ UNCHANGED <<committed, config, batch, srch, san, client, ctor,
                   containerExists, blobs, uncommitted, up, last>>

NextIds == \E i \in SeqNumbers, j \in SeqNumbers : GenerateBlockIds(i, j)

\* _generate_block_id is a static method: no client state is involved
InitIds ==
    /\ client = NoClient
    /\ ctor = NoCtor
    /\ containerExists = FALSE
    /\ blobs = [n \in BlobNames |-> Absent]
    /\ uncommitted = [n \in BlobNames |-> NoBlocks]
    /\ committed = [n \in BlobNames |-> NoBlocks]
    /\ up = [p \in Procs |-> IdleUpload]
    /\ last = NoLast
    /\ san = NoSan
    /\ config = NoConfig
    /\ batch = NoBatch
    /\ srch = NoSearch
    /\ gen = NoGen

SpecIds == InitIds /\ [][NextIds]_vars

\* ------------------------------------------------------------------------
\* upload_text and upload_file: the public entry points, with the
\* UploadConfig object the caller passes
\* ------------------------------------------------------------------------
\* Texts: letters, one text with a control character, one with a character
\* outside ASCII
Texts ==
    {[k \in 1..n |-> 64 + k] : n \in 0..MaxLen} \cup {<<65, 7, 66>>, <<233, 65>>}

FileNames == {"f.txt", "f"}

ContentTypes == {NoneVal, "application/json"}

Callbacks == {NoneVal, "callback"}

\* The UploadConfig objects a caller passes
Configs ==
    [chunk_size : ChunkSizes, overwrite : BOOLEAN, content_type : ContentTypes,
     metadata : {NoneVal}, progress_callback : Callbacks]

\* The arguments of _upload_bytes as the upload call holds them
Call(name, data, cfg) ==
    [IdleUpload EXCEPT !.name = name, !.data = data,
                       !.chunk_size = cfg.chunk_size,
                       !.overwrite = cfg.overwrite,
                       !.callback = Truthy(cfg.progress_callback),
                       !.before = blobs[name]]

\* upload_text(text_data, blob_name, config)
UploadText(p, text, name, given, cfg, clientFault) ==
    /\ client.state = "ready"
    /\ Quiescent
    /\ config.via = "none"
    /\ LET r == upload_text_config(given, cfg)
       IN  /\ config' = [via |-> "upload_text", given |-> given, before |-> cfg,
                         obj |-> r.obj, used |-> r.used]
           /\ up' = [up EXCEPT ![p] =
                  Enter(Call(name, _safe_utf8_bytes(text), r.used), clientFault)]
    /\ UNCHANGED <<committed, batch, srch, gen, san, client, ctor,
                   containerExists, blobs, uncommitted, last>>

\* upload_file(file_path, blob_name, config): a missing file raises
\* FileNotFoundError before the config is looked at; a file that cannot be
\* read raises BlobStorageError after it
UploadFile(p, file_path, exists, readable, data, name, given, cfg, clientFault) ==
    /\ client.state = "ready"
    /\ Quiescent
    /\ config.via = "none"
    /\ LET r == upload_file_config(given, cfg, file_path)
           u == Call(name, data, r.used)
       IN  IF ~exists
           THEN /\ config' = [via |-> "upload_file", given |-> given,
                              before |-> cfg, obj |-> cfg, used |-> cfg]
                /\ up' = [up EXCEPT ![p] =
                       [u EXCEPT !.pc = "done", !.failed = "exists",
                                 !.result = Raise("FileNotFoundError", "")]]
           ELSE /\ config' = [via |-> "upload_file", given |-> given,
                              before |-> cfg, obj |-> r.obj, used |-> r.used]
                /\ up' = [up EXCEPT ![p] =
                       IF ~readable
                       THEN [u EXCEPT !.pc = "done", !.failed = "read_bytes",
                                      !.result = Raise("BlobStorageError", "OSError")]
                       ELSE Enter(u, clientFault)]
    /\ UNCHANGED <<committed, batch, srch, gen, san, client, ctor,
                   containerExists, blobs, uncommitted, last>>

NextCfg ==
    \/ \E p \in Procs, text \in Texts, name \in BlobNames, given \in BOOLEAN,
          cfg \in Configs, cf \in Faults :
          UploadText(p, text, name, given, IF given THEN cfg ELSE DefaultConfig, cf)
    \/ \E p \in Procs, file_path \in FileNames, exists \in BOOLEAN,
          readable \in BOOLEAN, data \in Payloads, name \in BlobNames,
          given \in BOOLEAN, cfg \in Configs, cf \in Faults :
          UploadFile(p, file_path, exists, readable, data, name, given,
                     IF given THEN cfg ELSE DefaultConfig, cf)
    \/ \E p \in Procs, f \in Faults : ExistsCheck(p, f)
    \/ \E p \in Procs, f \in Faults : SimpleUpload(p, f)
    \/ \E p \in Procs, f \in Faults : StageBlock(p, f)
    \/ \E p \in Procs, f \in Faults : CommitBlockList(p, f)

\* A constructed client on an existing container; the blob name is free or
\* already taken
InitCfg ==
    /\ client = StartedClient
    /\ ctor = NoCtor
    /\ containerExists = TRUE
    /\ blobs \in [BlobNames -> {Absent, <<0>>}]
    /\ uncommitted = [n \in BlobNames |-> NoBlocks]
    /\ committed = [n \in BlobNames |-> NoBlocks]
    /\ up = [p \in Procs |-> IdleUpload]
    /\ last = NoLast
    /\ san = NoSan
    /\ config = NoConfig
    /\ batch = NoBatch
    /\ srch = NoSearch
    /\ gen = NoGen

SpecCfg == InitCfg /\ [][NextCfg]_vars

\* ------------------------------------------------------------------------
\* Two callers upload to the same blob name at the same time: the backend
\* requests of the two _upload_bytes calls interleave in any order
\* ------------------------------------------------------------------------
Callers == {1, 2}

\* The payload of caller p: n bytes that no other caller's payload holds
PayloadOf(p, n) == [k \in 1..n |-> 10 * p + k]

\* Caller p calls _upload_bytes
StartUpload(p, name, n, chunk_size, overwrite) ==
    /\ client.state = "ready"
    /\ up[p].pc = "idle"
    /\ up' = [up EXCEPT ![p] =
             Enter([IdleUpload EXCEPT !.name = name, !.data = PayloadOf(p, n),
                                      !.chunk_size = chunk_size,
                                      !.overwrite = overwrite,
                                      !.before = blobs[name]], "none")]
    /\ UNCHANGED <<committed, config, batch, srch, gen, san, client, ctor,
                   containerExists, blobs, uncommitted, last>>

NextConc ==
    \/ \E p \in Callers, name \in BlobNames, n \in 0..MaxLen,
          chunk_size \in ChunkSizes, overwrite \in BOOLEAN :
          StartUpload(p, name, n, chunk_size, overwrite)
    \/ \E p \in Callers, f \in Faults : ExistsCheck(p, f)
    \/ \E p \in Callers, f \in Faults : SimpleUpload(p, f)
    \/ \E p \in Callers, f \in Faults : StageBlock(p, f)
    \/ \E p \in Callers, f \in Faults : CommitBlockList(p, f)

\* A constructed client on an existing container; the blob name is free
InitConc ==
    /\ client = StartedClient
    /\ ctor = NoCtor
    /\ containerExists = TRUE
    /\ blobs = [n \in BlobNames |-> Absent]
    /\ uncommitted = [n \in BlobNames |-> NoBlocks]
    /\ committed = [n \in BlobNames |-> NoBlocks]
    /\ up = [p \in Callers |-> IdleUpload]
    /\ last = NoLast
    /\ san = NoSan
    /\ config = NoConfig
    /\ batch = NoBatch
    /\ srch = NoSearch
    /\ gen = NoGen

SpecConc == InitConc /\ [][NextConc]_vars

\* ------------------------------------------------------------------------
\* Article pipeline (src/utils/search.py): extract_from_urls, then
\* store_articles, as _process_articles runs them
\* ------------------------------------------------------------------------
\* most URLs handed to one _process_articles call
MaxUrls == 3

UrlNames == {"u", "v"}

\* How the download and parse of one URL ends, chosen by the environment
ExtractFaults == {"none", "ArticleException"}

\* How upload_text ends for one article: True with the blob committed, or
\* BlobStorageError with nothing committed under the name
UploadOutcomes == {Return("True"), Raise("BlobStorageError", "HttpResponseError")}

LogEntry(level, what, url) == [level |-> level, what |-> what, url |-> url]

\* Variant of extract_from_url: no except clause
extract_from_url_propagate(url, fault) ==
    IF fault = "none"
    THEN [out |-> Return("ArticleData"), article |-> <<[url |-> url]>>,
          log |-> <<>>]
    ELSE [out |-> Raise(fault, ""), article |-> <<>>, log |-> <<>>]

\* ArticleExtractor.extract_from_url: the ArticleData, or None with the error
\* logged on any Exception
extract_from_url(url, fault) ==
    IF fault = "none"
    THEN [out |-> Return("ArticleData"), article |-> <<[url |-> url]>>,
          log |-> <<>>]
    ELSE IF IsInstance(fault, "Exception")
    THEN [out |-> Return(NoneVal), article |-> <<>>,
          log |-> <<LogEntry("error", "extract", url)>>]
    ELSE [out |-> Raise(fault, ""), article |-> <<>>, log |-> <<>>]

\* _generate_unique_article_name: a name no earlier call returned
_generate_unique_article_name(uuid) == uuid + 1

\* Variant of store_article: no except clause
store_article_propagate(article, name, upload) ==
    IF upload.kind = "return"
    THEN [out |-> Return(NoneVal),
          stored |-> <<[name |-> name, url |-> article.url]>>,
          log |-> <<LogEntry("info", "upload", article.url)>>]
    ELSE [out |-> upload, stored |-> <<>>, log |-> <<>>]

\* ArticleStorageManager.store_articles: the body of the loop, for one article
store_article(article, name, upload) ==
    IF upload.kind = "return"
    THEN [out |-> Return(NoneVal),
          stored |-> <<[name |-> name, url |-> article.url]>>,
          log |-> <<LogEntry(IF Truthy(upload.val) THEN "info" ELSE "warning",
                             "upload", article.url)>>]
    ELSE IF IsInstance(upload.val, "Exception")
    THEN [out |-> Return(NoneVal), stored |-> <<>>,
          log |-> <<LogEntry("error", "upload", article.url)>>]
    ELSE [out |-> upload, stored |-> <<>>, log |-> <<>>]

\* _process_articles(urls) is called
ProcessArticles(urls) ==
    /\ batch.pc = "idle"
    /\ batch' = [NoBatch EXCEPT
                   !.urls = urls,
                   !.pc = IF urls = <<>> THEN "done" ELSE "extract",
                   !.result = IF urls = <<>> THEN Return("articles") ELSE NoOutcome]
    /\ UNCHANGED <<committed, config, srch, gen, san, client, ctor,
                   containerExists, blobs, uncommitted, up, last>>

\* extract_from_urls: one iteration of the loop over the URLs
ExtractFromUrl(fault) ==
    /\ batch.pc = "extract"
    /\ LET b == batch
           url == b.urls[b.k]
           r == extract_from_url(url, fault)
           articles == b.articles \o r.article
           b1 == [b EXCEPT !.attempted = Append(@, url),
                           !.exfail = IF fault = "none" THEN @ ELSE @ + 1,
                           !.articles = articles,
                           !.log = @ \o r.log,
                           !.k = @ + 1]
       IN  batch' =
             IF r.out.kind = "raise"
             THEN [b1 EXCEPT !.pc = "done", !.result = r.out]
             ELSE IF b.k < Len(b.urls) THEN b1
             ELSE IF articles = <<>>
             THEN [b1 EXCEPT !.pc = "done", !.result = Return("articles")]
             ELSE [b1 EXCEPT !.pc = "store"]
    /\ UNCHANGED <<committed, config, srch, gen, san, client, ctor,
                   containerExists, blobs, uncommitted, up, last>>

\* store_articles: one iteration of the loop over the extracted articles
StoreArticle(upload) ==
    /\ batch.pc = "store"
    /\ LET b == batch
           article == b.articles[b.j]
           name == _generate_unique_article_name(b.uuid)
           r == store_article(article, name, upload)
           b1 == [b EXCEPT !.uuid = name,
                           !.uploads = Append(@, article.url),
                           !.succ = IF upload.kind = "return"
                                    THEN Append(@, article.url) ELSE @,
                           !.upfail = IF upload.kind = "return" THEN @ ELSE @ + 1,
                           !.stored = @ \o r.stored,
                           !.log = @ \o r.log,
                           !.j = @ + 1]
       IN  batch' =
             IF r.out.kind = "raise"
             THEN [b1 EXCEPT !.pc = "done", !.result = r.out]
             ELSE IF b.j < Len(b.articles) THEN b1
             ELSE [b1 EXCEPT !.pc = "done", !.result = Return("articles")]
    /\ UNCHANGED <<committed, config, srch, gen, san, client, ctor,
                   containerExists, blobs, uncommitted, up, last>>

NextBatch ==
    \/ \E urls \in SeqsUpTo(UrlNames, MaxUrls) : ProcessArticles(urls)
    \/ \E fault \in ExtractFaults : ExtractFromUrl(fault)
    \/ \E upload \in UploadOutcomes : StoreArticle(upload)

\* The storage manager was constructed with the service; no batch has run
InitBatch ==
    /\ client = StartedClient
    /\ ctor = NoCtor
    /\ containerExists = TRUE
    /\ blobs = [n \in BlobNames |-> Absent]
    /\ uncommitted = [n \in BlobNames |-> NoBlocks]
    /\ committed = [n \in BlobNames |-> NoBlocks]
    /\ up = [p \in Procs |-> IdleUpload]
    /\ last = NoLast
    /\ san = NoSan
    /\ config = NoConfig
    /\ batch = NoBatch
    /\ srch = NoSearch
    /\ gen = NoGen

SpecBatch == InitBatch /\ [][NextBatch]_vars

\* ------------------------------------------------------------------------
\* BingSearchService.search (src/utils/search.py): the agent conversation
\* and the release of its resources
\* ------------------------------------------------------------------------
\* The name AGENT_NAME is set to, and the name of an agent the call creates
SharedAgent == "shared"
CreatedAgent == "created"
ThreadId == "thread"

\* An exception leaves the try block: the finally clause runs next
Fail(s, e) == [s EXCEPT !.pc = "cleanup", !.pending = Raise(e, "")]

\* One request to the agent service inside the try block
Request(s, call) == [s EXCEPT !.calls = Append(@, call)]

\* next((a for a in agents if a.name == agent_name), None)
FindAgent(agents, agent_name) ==
    IF agent_name \in agents THEN agent_name ELSE NoneVal

\* Variant of cleanup_except: the error of a release is raised again
cleanup_except_reraise(e) ==
    [out |-> Raise(e, ""), log |-> <<LogEntry("error", "cleanup", "")>>]

\* _cleanup_resources: except Exception as e: the error is logged and the
\* method returns; an exception that is no Exception passes through
cleanup_except(e) ==
    IF IsInstance(e, "Exception")
    THEN [out |-> Return(NoneVal), log |-> <<LogEntry("error", "cleanup", "")>>]
    ELSE [out |-> Raise(e, ""), log |-> <<>>]

\* finally: an exception raised by the finally clause replaces the pending
\* return or exception of the try block; otherwise the pending one takes
\* effect
Finally(pending, out) == IF out.kind = "raise" THEN out ELSE pending

\* _cleanup_resources: the three releases inside one try block; the first
\* release that raises ends the block, and the error is logged
_cleanup_resources(s, ft, fa, fc) ==
    LET has_client == Truthy(s.project_client)
        do_thread == Truthy(s.thread) /\ has_client
        do_agent == Truthy(s.agent) /\ has_client
        thread_failed == do_thread /\ ft # "none"
        agent_reached == ~thread_failed
        agent_failed == agent_reached /\ do_agent /\ fa # "none"
        close_reached == agent_reached /\ ~agent_failed
        close_failed == close_reached /\ has_client /\ fc # "none"
        raised == IF thread_failed THEN ft ELSE IF agent_failed THEN fa ELSE fc
        caught == IF thread_failed \/ agent_failed \/ close_failed
                  THEN cleanup_except(raised)
                  ELSE [out |-> Return(NoneVal), log |-> <<>>]
    IN  [s EXCEPT
           !.threads = IF do_thread /\ ~thread_failed THEN @ \ {s.thread} ELSE @,
           !.agents = IF agent_reached /\ do_agent /\ ~agent_failed
                      THEN @ \ {s.agent} ELSE @,
           !.client_state = IF close_reached /\ has_client /\ ~close_failed
                            THEN "closed" ELSE @,
           !.calls = @ \o (IF do_thread THEN <<"threads.delete">> ELSE <<>>)
                       \o (IF agent_reached /\ do_agent
                           THEN <<"delete_agent">> ELSE <<>>)
                       \o (IF close_reached /\ has_client
                           THEN <<"close">> ELSE <<>>),
           !.relfail = (IF thread_failed THEN {"thread"} ELSE {})
                       \cup (IF agent_failed THEN {"agent"} ELSE {})
                       \cup (IF close_failed THEN {"client"} ELSE {}),
           !.log = @ \o caught.log,
           !.cleanup_out = caught.out]

\* search(query) is called: validate_required_vars, then the environment is
\* read; a missing variable raises before the try block is entered
Search(env_ok, agent_name) ==
    /\ srch.pc = "idle"
    /\ srch' = IF ~env_ok
               THEN [srch EXCEPT !.pc = "done",
                                 !.result = Raise("EnvironmentError", "")]
               ELSE [srch EXCEPT !.pc = "client", !.agent_name = agent_name]
    /\ UNCHANGED <<committed, config, batch, gen, san, client, ctor,
                   containerExists, blobs, uncommitted, up, last>>

\* project_client = AIProjectClient(...)
CreateClient(fault) ==
    /\ srch.pc = "client"
    /\ srch' = IF fault # "none" THEN Fail(srch, fault)
               ELSE [srch EXCEPT !.pc = "connection",
                                 !.project_client = "client",
                                 !.client_state = "open"]
    /\ UNCHANGED <<committed, config, batch, gen, san, client, ctor,
                   containerExists, blobs, uncommitted, up, last>>

\* project_client.connections.get(name=bing_connection_name)
GetConnection(fault) ==
    /\ srch.pc = "connection"
    /\ LET s == Request(srch, "connections.get")
       IN  srch' = IF fault # "none" THEN Fail(s, fault)
                   ELSE [s EXCEPT !.pc = "list_agents"]
    /\ UNCHANGED <<committed, config, batch, gen, san, client, ctor,
                   containerExists, blobs, uncommitted, up, last>>

\* agents = list_agents(); agent = the one named agent_name, or None
ListAgents(fault) ==
    /\ srch.pc = "list_agents"
    /\ LET s == Request(srch, "list_agents")
           agent == FindAgent(srch.agents, srch.agent_name)
       IN  srch' = IF fault # "none" THEN Fail(s, fault)
                   ELSE [s EXCEPT !.agent = agent,
                                  !.pc = IF agent = NoneVal THEN "create_agent"
                                         ELSE "create_thread"]
    /\ UNCHANGED <<committed, config, batch, gen, san, client, ctor,
                   containerExists, blobs, uncommitted, up, last>>

\* if agent is None: agent = create_agent(name=_generate_unique_agent_name())
CreateAgent(fault) ==
    /\ srch.pc = "create_agent"
    /\ LET s == Request(srch, "create_agent")
       IN  srch' = IF fault # "none" THEN Fail(s, fault)
                   ELSE [s EXCEPT !.agents = @ \cup {CreatedAgent},
                                  !.agent = CreatedAgent,
                                  !.created = TRUE,
                                  !.pc = "create_thread"]
    /\ UNCHANGED <<committed, config, batch, gen, san, client, ctor,
                   containerExists, blobs, uncommitted, up, last>>

\* thread = project_client.agents.threads.create()
CreateThread(fault) ==
    /\ srch.pc = "create_thread"
    /\ LET s == Request(srch, "threads.create")
       IN  srch' = IF fault # "none" THEN Fail(s, fault)
                   ELSE [s EXCEPT !.threads = @ \cup {ThreadId},
                                  !.thread = ThreadId,
                                  !.pc = "create_message"]
    /\ UNCHANGED <<committed, config, batch, gen, san, client, ctor,
                   containerExists, blobs, uncommitted, up, last>>

\* project_client.agents.messages.create(thread_id, role="user", content=query)
CreateMessage(fault) ==
    /\ srch.pc = "create_message"
    /\ LET s == Request(srch, "messages.create")
       IN  srch' = IF fault # "none" THEN Fail(s, fault)
                   ELSE [s EXCEPT !.pc = "run"]
    /\ UNCHANGED <<committed, config, batch, gen, san, client, ctor,
                   containerExists, blobs, uncommitted, up, last>>

\* run = create_and_process(...); if run.status == "failed": raise Exception
RunAgent(fault, status) ==
    /\ srch.pc = "run"
    /\ LET s == Request(srch, "create_and_process")
       IN  srch' = IF fault # "none" THEN Fail(s, fault)
                   ELSE IF status = "failed" THEN Fail(s, "AgentRunFailed")
                   ELSE [s EXCEPT !.pc = "last_message"]
    /\ UNCHANGED <<committed, config, batch, gen, san, client, ctor,
                   containerExists, blobs, uncommitted, up, last>>

\* last_message = get_last_message_text_by_role(thread_id, role="assistant")
GetLastMessage(fault) ==
    /\ srch.pc = "last_message"
    /\ LET s == Request(srch, "get_last_message_text_by_role")
       IN  srch' = IF fault # "none" THEN Fail(s, fault)
                   ELSE [s EXCEPT !.pc = "process"]
    /\ UNCHANGED <<committed, config, batch, gen, san, client, ctor,
                   containerExists, blobs, uncommitted, up, last>>

\* urls = _extract_urls_from_annotations(last_message.text.annotations);
\* _process_articles(urls); return last_message. A message without text
\* annotations raises AttributeError.
ProcessResults(annotated) ==
    /\ srch.pc = "process"
    /\ srch' = IF ~annotated THEN Fail(srch, "AttributeError")
               ELSE [srch EXCEPT !.pc = "cleanup",
                                 !.pending = Return("last_message")]
    /\ UNCHANGED <<committed, config, batch, gen, san, client, ctor,
                   containerExists, blobs, uncommitted, up, last>>

\* finally: self._cleanup_resources(project_client, thread, agent); then the
\* pending return or exception of the try block takes effect
Cleanup(ft, fa, fc) ==
    /\ srch.pc = "cleanup"
    /\ LET s == _cleanup_resources(srch, ft, fa, fc)
       IN  srch' = [s EXCEPT !.pc = "done",
                             !.result = Finally(srch.pending, s.cleanup_out)]
    /\ UNCHANGED <<committed, config, batch, gen, san, client, ctor,
                   containerExists, blobs, uncommitted, up, last>>

NextSearch ==
    \/ \E env_ok \in BOOLEAN, agent_name \in {NoneVal, SharedAgent} :
          Search(env_ok, agent_name)
    \/ \E f \in Faults : CreateClient(f)
    \/ \E f \in Faults : GetConnection(f)
    \/ \E f \in Faults : ListAgents(f)
    \/ \E f \in Faults : CreateAgent(f)
    \/ \E f \in Faults : CreateThread(f)
    \/ \E f \in Faults : CreateMessage(f)
    \/ \E f \in Faults, status \in {"completed", "failed"} : RunAgent(f, status)
    \/ \E f \in Faults : GetLastMessage(f)
    \/ \E annotated \in BOOLEAN : ProcessResults(annotated)
    \/ \E ft \in Faults, fa \in Faults, fc \in Faults : Cleanup(ft, fa, fc)

\* Before the call: the agent service may already hold an agent whose name
\* is AGENT_NAME
InitSearch ==
    /\ client = StartedClient
    /\ ctor = NoCtor
    /\ containerExists = TRUE
    /\ blobs = [n \in BlobNames |-> Absent]
    /\ uncommitted = [n \in BlobNames |-> NoBlocks]
    /\ committed = [n \in BlobNames |-> NoBlocks]
    /\ up = [p \in Procs |-> IdleUpload]
    /\ last = NoLast
    /\ san = NoSan
    /\ config = NoConfig
    /\ batch = NoBatch
    /\ \E agents \in SUBSET {SharedAgent} : srch = [NoSearch EXCEPT !.agents = agents]
    /\ gen = NoGen

SpecSearch == InitSearch /\ [][NextSearch]_vars

\* ------------------------------------------------------------------------
\* Properties
\* ------------------------------------------------------------------------
Count(c, calls) == Cardinality({k \in 1..Len(calls) : calls[k] = c})

RECURSIVE Flatten(_)
Flatten(chunks) ==
    IF chunks = <<>> THEN <<>> ELSE Head(chunks) \o Flatten(Tail(chunks))

\* ceil(n / d) for d >= 1
CeilDiv(n, d) == (n + d - 1) \div d

Staged(u) == Len(u.data) > u.chunk_size

\* C1: a staged upload that fails at a stage_block call never invokes
\* commit_block_list and leaves the visible content of the blob as it was
\* before the upload began; while blocks are being staged nothing changes
\* under the name, and the content changes only by the commit, to the whole
\* payload at once.
C1_StagingInvisible ==
    \A p \in Procs :
        LET u == up[p]
        IN  /\ u.pc \in {"stage", "commit"} => blobs[u.name] = u.before
            /\ u.failed = "stage_block" =>
                  /\ u.pc = "done"
                  /\ u.result.kind = "raise"
                  /\ Count("commit_block_list", u.calls) = 0
                  /\ blobs[u.name] = u.before
            /\ (u.pc = "done" /\ Staged(u) /\ blobs[u.name] # u.before) =>
                  /\ u.result = Return("True")
                  /\ u.calls[Len(u.calls)] = "commit_block_list"
                  /\ Count("commit_block_list", u.calls) = 1
                  /\ blobs[u.name] = u.data

\* C1 witness: a staged upload over an existing blob failed at its second
\* stage_block call
C1_Witness ==
    \E p \in Procs :
        /\ up[p].pc = "done"
        /\ up[p].failed = "stage_block"
        /\ Len(up[p].staged) = 2
        /\ up[p].before # Absent

\* C2: a payload of at most chunk_size bytes goes out in one upload_blob call
\* with no stage_block and no commit_block_list; a longer payload is staged
\* in exactly ceil(len(data) / chunk_size) stage_block calls followed by one
\* commit_block_list call, and never by upload_blob.
C2_PathAndBlockCount ==
    \A p \in Procs :
        LET u == up[p]
            n == Len(u.data)
            expected == CeilDiv(n, u.chunk_size)
            reachedUpload == u.pc = "done" /\ u.failed \notin {"get_blob_client", "exists_check"}
        IN  /\ n <= u.chunk_size =>
                  /\ Count("stage_block", u.calls) = 0
                  /\ Count("commit_block_list", u.calls) = 0
                  /\ u.pc \notin {"stage", "commit"}
                  /\ Count("upload_blob", u.calls) = (IF reachedUpload THEN 1 ELSE 0)
            /\ n > u.chunk_size =>
                  /\ Count("upload_blob", u.calls) = 0
                  /\ u.pc # "simple"
                  /\ Count("stage_block", u.calls) <= expected
                  /\ Count("commit_block_list", u.calls) <= 1
                  /\ (u.pc = "commit" \/ Count("commit_block_list", u.calls) = 1) =>
                        /\ Count("stage_block", u.calls) = expected
                        /\ \A k \in 1..expected : u.calls[Len(u.calls) - Count("commit_block_list", u.calls) + 1 - k] = "stage_block"
                  /\ (u.pc = "done" /\ u.result = Return("True")) =>
                        /\ Count("stage_block", u.calls) = expected
                        /\ Count("commit_block_list", u.calls) = 1
                        /\ u.calls[Len(u.calls)] = "commit_block_list"

\* C2 witness: three bytes with chunk_size two were uploaded in two blocks
C2_Witness ==
    \E p \in Procs :
        /\ up[p].pc = "done"
        /\ up[p].result = Return("True")
        /\ Len(up[p].data) = 3
        /\ up[p].chunk_size = 2
        /\ Count("stage_block", up[p].calls) = 2

\* C3: after a successful staged upload the committed block list is the list
\* of staged block ids in staging order, every chunk but the last has
\* chunk_size bytes, and the staged chunks concatenated in committed order,
\* which is what download_bytes returns, are the original bytes.
C3_RoundTrip ==
    \A p \in Procs :
        LET u == up[p]
            m == Len(u.staged)
        IN  (u.pc = "done" /\ Staged(u) /\ u.result = Return("True")) =>
               /\ m >= 1
               /\ u.block_list = [k \in 1..m |-> u.staged[k].id]
               /\ \A j, k \in 1..m : j # k => u.block_list[j] # u.block_list[k]
               /\ \A k \in 1..(m - 1) : Len(u.staged[k].chunk) = u.chunk_size
               /\ Len(u.staged[m].chunk) \in 1..u.chunk_size
               /\ Flatten([k \in 1..m |-> u.staged[k].chunk]) = u.data
               /\ blobs[u.name] = u.data
               /\ download_bytes(containerExists, blobs, u.name, "none", "none").out
                     = Return("bytes")
               /\ download_bytes(containerExists, blobs, u.name, "none", "none").data
                     = u.data

\* C3 witness: a payload staged in three blocks replaced an older blob
C3_Witness ==
    \E p \in Procs :
        /\ up[p].pc = "done"
        /\ up[p].result = Return("True")
        /\ Len(up[p].staged) = 3
        /\ up[p].before \notin {Absent, up[p].data}
        /\ blobs[up[p].name] = up[p].data

\* C4: an upload with overwrite=False to a name that holds a blob fails,
\* with BlobAlreadyExistsError once the existence check has seen the blob,
\* issues no upload_blob, stage_block or commit_block_list call and leaves
\* the content of the blob unchanged.
C4_NoOverwrite ==
    \A p \in Procs :
        LET u == up[p]
        IN  (u.pc # "idle" /\ ~u.overwrite /\ u.before # Absent) =>
               /\ u.pc \in {"exists_check", "done"}
               /\ Count("upload_blob", u.calls) = 0
               /\ Count("stage_block", u.calls) = 0
               /\ Count("commit_block_list", u.calls) = 0
               /\ blobs[u.name] = u.before
               /\ u.pc = "done" =>
                     /\ u.result.kind = "raise"
                     /\ IsInstance(u.result.val, "BlobStorageError")
                     /\ u.probe = "found" => u.result = Raise("BlobAlreadyExistsError", "")

\* C4 witness: a no-overwrite upload of a long payload met an existing blob
C4_Witness ==
    \E p \in Procs :
        /\ up[p].pc = "done"
        /\ ~up[p].overwrite
        /\ up[p].before # Absent
        /\ Staged(up[p])
        /\ up[p].result = Raise("BlobAlreadyExistsError", "")

\* C5: delete_blob removes an existing blob and returns True; on an absent
\* blob it returns False when must_exist is False and raises
\* BlobNotFoundError when must_exist is True (the container exists and the
\* backend answers the request).
C5_DeleteBlobContract ==
    (/\ last.op = "delete_blob"
     /\ last.containerExisted
     /\ last.clientFault = "none"
     /\ last.fault = "none") =>
        /\ last.existed =>
              /\ last.out = Return("True")
              /\ blobs[last.name] = Absent
        /\ (~last.existed /\ ~last.must_exist) => last.out = Return("False")
        /\ (~last.existed /\ last.must_exist) =>
              last.out = Raise("BlobNotFoundError", "")

\* C6: blob_exists never raises: it returns a boolean, False whenever
\* obtaining the client or fetching the properties failed, and otherwise
\* whether the blob exists.
C6_BlobExistsTotal ==
    last.op = "blob_exists" =>
        /\ last.out.kind = "return"
        /\ last.out.val \in {"True", "False"}
        /\ (last.clientFault # "none" \/ last.fault # "none") =>
              last.out = Return("False")
        /\ (last.clientFault = "none" /\ last.fault = "none") =>
              (last.out = Return("True") <=> last.existed)

\* C6 witness: the properties request failed for a blob that exists
C6_Witness ==
    /\ last.op = "blob_exists"
    /\ last.existed
    /\ last.clientFault = "none"
    /\ last.fault # "none"
    /\ last.out = Return("False")

\* C7: construction succeeds only with (account_url and container_name) or
\* (connection_string and container_name); otherwise it raises ValueError
\* before any request is sent, so that no container has been created.
C7_ConstructionNeedsPair ==
    ctor.out.kind # "none" =>
        LET pair == \/ Truthy(ctor.account_url) /\ Truthy(ctor.container_name)
                    \/ Truthy(ctor.connection_string) /\ Truthy(ctor.container_name)
        IN  /\ ctor.out.kind = "return" => pair
            /\ client.state = "ready" <=> ctor.out.kind = "return"
            /\ ~pair =>
                  /\ ctor.out = Raise("ValueError", "")
                  /\ ctor.calls = <<>>
                  /\ containerExists = ctor.existed
            /\ (pair /\ ~ctor.create_container) =>
                  /\ ctor.out = Return(NoneVal)
                  /\ ctor.calls = <<>>

\* C7 witness: an account URL without a container name was rejected although
\* container creation was requested, and the container was not created
C7_Witness ==
    /\ ctor.out = Raise("ValueError", "")
    /\ Truthy(ctor.account_url)
    /\ ctor.container_name = ""
    /\ ctor.create_container
    /\ ~containerExists

\* C8: _ensure_container_exists on an existing container returns normally
\* and leaves the container and its blobs as they are; a backend error other
\* than already-exists is raised as BlobStorageError caused by it.
C8_EnsureIdempotent ==
    [][last'.op = "_ensure_container_exists" =>
          /\ containerExists =>
                /\ containerExists'
                /\ blobs' = blobs
                /\ uncommitted' = uncommitted
                /\ (last'.clientFault = "none" /\ last'.fault = "none") =>
                      last'.out = Return(NoneVal)
          /\ last'.clientFault # "none" =>
                /\ last'.out = Raise("BlobStorageError", last'.clientFault)
                /\ containerExists' = containerExists
          /\ (last'.clientFault = "none" /\ last'.fault # "none") =>
                /\ last'.out = Raise("BlobStorageError", last'.fault)
                /\ containerExists' = containerExists
          /\ last'.out.kind = "return" => containerExists'
    ]_vars

\* C8 witness: the call returned normally on a container that existed and
\* holds a blob
C8_Witness ==
    /\ last.op = "_ensure_container_exists"
    /\ last.containerExisted
    /\ last.out = Return(NoneVal)
    /\ \E n \in BlobNames : blobs[n] # Absent

\* C9: for every non-empty name and both values of add_extension the name
\* sanitize returns is non-empty, at most MAX_LENGTH characters long, free of
\* the illegal characters, without a leading or trailing dot or space, and
\* is accepted by validate.
C9_SanitizedIsValid ==
    (san.op # "none" /\ Len(san.input) > 0) =>
        /\ san.out.kind = "return"
        /\ Len(san.name) \in 1..MAX_LENGTH
        /\ \A i \in 1..Len(san.name) : san.name[i] \notin IllegalChars
        /\ san.name[1] \notin StripChars
        /\ san.name[Len(san.name)] \notin StripChars
        /\ san.op = "validate" => san.valid = "True"

\* C10: sanitize with add_extension=True raises exactly for the empty name;
\* for every other name the result is at most 1024 characters long and ends
\* with ".txt", the base being cut to 1020 characters.
C10_ExtensionWithinLimit ==
    (san.op # "none" /\ san.add_extension) =>
        /\ san.out.kind = "raise" <=> Len(san.input) = 0
        /\ san.out.kind = "raise" => san.out = Raise("ValueError", "")
        /\ Len(san.input) > 0 =>
              LET n == Len(san.name)
              IN  /\ n \in 5..1024
                  /\ SubSeq(san.name, n - 3, n) = <<".", "t", "x", "t">>
                  /\ (\A i \in 1..Len(san.input) : san.input[i] = "a") =>
                        n = (IF Len(san.input) < 1020 THEN Len(san.input) ELSE 1020) + 4

\* C10 witness: a name longer than the limit came back 1024 characters long
C10_Witness ==
    /\ san.op = "sanitize"
    /\ san.add_extension
    /\ Len(san.input) > 1024
    /\ Len(san.name) = 1024

LogCount(level, what) ==
    Cardinality({n \in 1..Len(batch.log) :
                   batch.log[n].level = level /\ batch.log[n].what = what})

\* C11: when _process_articles has run over n URLs of which k extractions
\* failed and every upload succeeded, extraction was attempted for every URL
\* in order, k failures were logged, exactly n - k articles were stored, one
\* blob each under pairwise distinct names, and the call returned.
C11_BatchSkipsFailedExtractions ==
    (batch.pc = "done" /\ batch.upfail = 0) =>
        /\ batch.result.kind = "return"
        /\ batch.attempted = batch.urls
        /\ LogCount("error", "extract") = batch.exfail
        /\ Len(batch.articles) = Len(batch.urls) - batch.exfail
        /\ Len(batch.stored) = Len(batch.urls) - batch.exfail
        /\ [n \in 1..Len(batch.stored) |-> batch.stored[n].url] =
               [n \in 1..Len(batch.articles) |-> batch.articles[n].url]
        /\ \A a, b \in 1..Len(batch.stored) :
               a # b => batch.stored[a].name # batch.stored[b].name

C11_Witness ==
    /\ batch.pc = "done"
    /\ Len(batch.urls) = 3
    /\ batch.exfail = 1
    /\ batch.upfail = 0
    /\ Len(batch.stored) = 2
    /\ batch.result.kind = "return"

\* C12: in store_articles a failed upload is logged and the loop goes on: at
\* every point the blobs stored are exactly those of the uploads that
\* succeeded so far (none is taken back), each failure has its log entry,
\* and when the call is over an upload was attempted for every extracted
\* article and the call returned.
C12_StoreContinuesAfterFailure ==
    /\ [n \in 1..Len(batch.stored) |-> batch.stored[n].url] = batch.succ
    /\ LogCount("error", "upload") = batch.upfail
    /\ batch.pc = "store" =>
           batch.uploads = [n \in 1..(batch.j - 1) |-> batch.articles[n].url]
    /\ batch.pc = "done" =>
           /\ batch.result.kind = "return"
           /\ batch.uploads = [n \in 1..Len(batch.articles) |-> batch.articles[n].url]

C12_Witness ==
    /\ batch.pc = "done"
    /\ Len(batch.articles) = 3
    /\ batch.upfail = 1
    /\ Len(batch.uploads) = 3
    /\ batch.succ = <<batch.articles[1].url, batch.articles[3].url>>
    /\ Len(batch.stored) = 2

\* C13: when search is over, however the try block was left, every resource
\* the call had acquired is released unless its own release request failed:
\* the thread is deleted if one was created, the agent is deleted if one was
\* obtained, and the project client is closed; a failed release of one
\* resource does not keep the others from being released.
C13_AllResourcesReleased ==
    (srch.pc = "done" /\ Truthy(srch.project_client)) =>
        /\ (Truthy(srch.thread) /\ "thread" \notin srch.relfail) =>
               srch.thread \notin srch.threads
        /\ (Truthy(srch.agent) /\ "agent" \notin srch.relfail) =>
               srch.agent \notin srch.agents
        /\ "client" \notin srch.relfail => srch.client_state = "closed"

\* C20: search deletes at exit only an agent it created itself: a
\* delete_agent request is issued only by a call that created its agent, and
\* an agent found under AGENT_NAME and reused still exists when the call is
\* over.
C20_ReusedAgentSurvives ==
    srch.pc = "done" =>
        /\ Count("delete_agent", srch.calls) > 0 => srch.created
        /\ (Truthy(srch.agent) /\ ~srch.created) => srch.agent \in srch.agents

\* C14: a backend failure in upload_blob, stage_block or commit_block_list
\* ends the upload with BlobStorageError whose cause is that backend error;
\* the failing request is the last one issued, and no request is repeated:
\* each block identifier is staged once, and upload_blob and
\* commit_block_list are called at most once.
C14_BackendFailureSurfaces ==
    \A p \in Procs :
        LET u == up[p]
        IN  /\ u.failed \in {"upload_blob", "stage_block", "commit_block_list"} =>
                /\ u.pc = "done"
                /\ IsInstance(u.error, "AzureError")
                /\ u.result = Raise("BlobStorageError", u.error)
                /\ u.calls[Len(u.calls)] = u.failed
                /\ Count(u.failed, u.calls) =
                       IF u.failed = "stage_block" THEN u.chunk_count + 1 ELSE 1
            /\ \A a, b \in 1..Len(u.staged) :
                   a # b => u.staged[a].id # u.staged[b].id
            /\ Count("stage_block", u.calls) <= CeilDiv(Len(u.data), u.chunk_size)
            /\ Count("upload_blob", u.calls) <= 1
            /\ Count("commit_block_list", u.calls) <= 1

C14_Witness ==
    \E p \in Procs :
        /\ up[p].pc = "done"
        /\ up[p].failed = "stage_block"
        /\ up[p].chunk_count = 1
        /\ up[p].result = Raise("BlobStorageError", "HttpResponseError")
        /\ Len(up[p].data) > 2 * up[p].chunk_size

\* C15: upload_text and upload_file leave every field of the UploadConfig
\* the caller passed as it was when the call was made, during the call and
\* after it, whether it succeeds or fails.
C15_ConfigUnchanged ==
    config.given => config.obj = config.before

\* C16: with a progress callback configured, the callback is invoked once
\* after each chunk transferred and before the next is sent, the k-th time
\* with min(k * chunk_size, len(data)) bytes so far out of len(data); a
\* successful upload of a non-empty payload of any size, at most chunk_size
\* bytes included, has reported ceil(len(data) / chunk_size) times and its
\* last report equals the total size.
C16_ProgressAfterEachChunk ==
    \A p \in Procs :
        LET u == up[p]
            n == Len(u.data)
            reports == Len(u.progress)
        IN  u.callback =>
              /\ \A k \in 1..reports :
                     u.progress[k] =
                         [pos |-> IF k * u.chunk_size < n THEN k * u.chunk_size ELSE n,
                          total |-> n, chunk |-> k]
              /\ \A x \in 1..Len(u.calls) :
                     u.calls[x] = "progress_callback" =>
                         x > 1 /\ u.calls[x - 1] \in {"stage_block", "upload_blob"}
              /\ Staged(u) => reports = u.chunk_count
              /\ (u.pc = "done" /\ u.result.kind = "return" /\ n > 0) =>
                     /\ reports = CeilDiv(n, u.chunk_size)
                     /\ u.progress[reports].pos = n

\* a sorts strictly before b, comparing character codes from the left
LexLess(a, b) ==
    \/ \E k \in 1..Len(a) :
          /\ k <= Len(b)
          /\ a[k] < b[k]
          /\ \A m \in 1..(k - 1) : a[m] = b[m]
    \/ Len(a) < Len(b) /\ \A m \in 1..Len(a) : a[m] = b[m]

\* C17: the identifiers of two blocks i < j of one upload are distinct, of
\* the same length, and the identifier of block i sorts strictly before the
\* identifier of block j as a string of character codes.
C17_BlockIdsSortInUploadOrder ==
    gen.op = "_generate_block_id" =>
        /\ gen.id_i # gen.id_j
        /\ Len(gen.id_i) = Len(gen.id_j)
        /\ LexLess(gen.id_i, gen.id_j)

\* C18: when two staged uploads to the same blob name have run concurrently
\* and both have committed, the content of the blob is the complete payload
\* of one of the two, never a mixture of chunks of both.
C18_NoMixedContent ==
    (\A p \in Callers :
        /\ up[p].pc = "done"
        /\ Staged(up[p])
        /\ up[p].result = Return("True")) =>
    \A name \in BlobNames :
        (\A p \in Callers : up[p].name = name) =>
            \E p \in Callers : blobs[name] = up[p].data

\* C19: when two uploads with overwrite=False to the same, initially absent
\* blob name have run concurrently, at most one of them has succeeded, and
\* the blob holds the payload of the one that succeeded, on the single-shot
\* path as on the staged path.
C19_OneWriterWins ==
    (\A p \in Callers : up[p].pc = "done" /\ ~up[p].overwrite) =>
        LET winners == {p \in Callers : up[p].result = Return("True")}
        IN  /\ Cardinality(winners) <= 1
            /\ \A p \in winners : blobs[up[p].name] = up[p].data

\* C21: a failure during cleanup never changes the outcome of search: when
\* the call is over after its try block was entered, the caller receives
\* what the try block left pending, the returned message or the exception
\* raised, also when deleting the thread, deleting the agent or closing the
\* client raised.
C21_CleanupKeepsOutcome ==
    (srch.pc = "done" /\ srch.pending # NoOutcome) =>
        /\ srch.result = srch.pending
        /\ srch.cleanup_out = Return(NoneVal)
        /\ srch.relfail # {} =>
               srch.log = <<LogEntry("error", "cleanup", "")>>

C21_Witness ==
    /\ srch.pc = "done"
    /\ srch.relfail = {"thread"}
    /\ srch.pending = Return("last_message")
    /\ srch.result = Return("last_message")

====
